---- MODULE Spec2Model ----
(***************************************************************************)
(* A model of the CKEditor 5 clipboard plugin                              *)
(* (packages/ckeditor5-clipboard/src/clipboard.js): the paste/drop input   *)
(* pipeline, the copy/cut output pipeline and the drag-and-drop session    *)
(* (dragged live range, drop-target markers, throttled marker update,      *)
(* draggable attribute).                                                   *)
(*                                                                         *)
(* The document is one editable root that accepts text and inline          *)
(* elements.  A node of the root is a text character with attributes, or   *)
(* an empty element: an object "W" (a widget), an object "WL" holding one  *)
(* empty limit element, a limit element "L" or a plain container "S";      *)
(* none of the elements accepts text.  Offsets count from 0, so the node   *)
(* after offset k is doc[k+1]; a range <<s, e>> covers doc[s+1 .. e].      *)
(***************************************************************************)
EXTENDS Integers, Sequences, FiniteSets, TLC

\* ------------------------------------------------------------- bounds

\* The longest document: an insertion that would exceed it is not offered.
MaxDocLen == 2

\* ------------------------------------------------------------ values

\* "No range": a null range reference, a missing marker, no throttle args.
NoRange == <<>>

\* "No element": a null element reference.
NoElement == "null"

\* Attributes are sets of <<key, value>> pairs with one pair per key.
NoAttrs == {}

AttrKeys(attrs) == { p[1] : p \in attrs }

Text(c, attrs) == [kind |-> "text", ch |-> c, attrs |-> attrs]

Element(k) == [kind |-> k, ch |-> "", attrs |-> NoAttrs]

isText(node) == node.kind = "text"

\* schema.isObject
isObject(kind) == kind \in {"W", "WL"}

\* schema.isLimit: every object is a limit, and so is the root.
isLimit(kind) == kind \in {"W", "WL", "L", "root"}

\* schema.getAttributeProperties( key ).isFormatting
isFormatting(key) == key \in {"bold", "fontSize"}

\* ------------------------------------------------------------ ranges

isCollapsed(r) == r[1] = r[2]

\* Range.containsPosition: strictly between the range's start and end.
containsPosition(r, p) == r[1] < p /\ p < r[2]

\* Range.containsRange( other, loose ): a collapsed other is never loose.
containsRange(r, other, loose) ==
    LET l == IF isCollapsed(other) THEN FALSE ELSE loose
        containsStart == containsPosition(r, other[1]) \/ (l /\ r[1] = other[1])
        containsEnd == containsPosition(r, other[2]) \/ (l /\ r[2] = other[2])
    IN  containsStart /\ containsEnd

\* A position (of a live range or of the selection) after howMany nodes were
\* inserted at offset at: a position at or after the insertion moves right.
PosAfterInsert(p, at, howMany) == IF at <= p THEN p + howMany ELSE p

\* A position after the nodes of <<s, e>> were removed.
PosAfterRemove(p, s, e) == IF p >= e THEN p - (e - s) ELSE IF p > s THEN s ELSE p

RangeAfterInsert(r, at, howMany) ==
    IF r = NoRange THEN NoRange
    ELSE <<PosAfterInsert(r[1], at, howMany), PosAfterInsert(r[2], at, howMany)>>

RangeAfterRemove(r, s, e) ==
    IF r = NoRange THEN NoRange
    ELSE <<PosAfterRemove(r[1], s, e), PosAfterRemove(r[2], s, e)>>

\* The ranges of a document of length n.
Ranges(n) == { <<s, e>> : s \in 0..n, e \in 0..n } \ { r \in (0..n) \X (0..n) : r[1] > r[2] }

\* ---------------------------------------------------- the document

\* The nodes of d with those of <<s, e>> removed.
RemoveNodes(d, s, e) == SubSeq(d, 1, s) \o SubSeq(d, e + 1, Len(d))

\* The nodes of d with nodes inserted at offset at.
InsertNodes(d, at, nodes) == SubSeq(d, 1, at) \o nodes \o SubSeq(d, at + 1, Len(d))

RECURSIVE firstTextIn(_, _, _)
\* The attributes of the first text node of doc[i .. e], unless an object
\* comes first; found is FALSE when there is none.
firstTextIn(d, i, e) ==
    IF i > e THEN [found |-> FALSE, attrs |-> NoAttrs]
    ELSE IF isObject(d[i].kind) THEN [found |-> FALSE, attrs |-> NoAttrs]
    ELSE IF isText(d[i]) THEN [found |-> TRUE, attrs |-> d[i].attrs]
    ELSE firstTextIn(d, i + 1, e)

RECURSIVE siblingTextBefore(_, _)
\* The attributes of the nearest text node among doc[1 .. i], searching left.
siblingTextBefore(d, i) ==
    IF i < 1 THEN [found |-> FALSE, attrs |-> NoAttrs]
    ELSE IF isText(d[i]) THEN [found |-> TRUE, attrs |-> d[i].attrs]
    ELSE siblingTextBefore(d, i - 1)

RECURSIVE siblingTextAfter(_, _)
\* The attributes of the nearest text node among doc[i .. Len], searching right.
siblingTextAfter(d, i) ==
    IF i > Len(d) THEN [found |-> FALSE, attrs |-> NoAttrs]
    ELSE IF isText(d[i]) THEN [found |-> TRUE, attrs |-> d[i].attrs]
    ELSE siblingTextAfter(d, i + 1)

\* selection.getAttributes(): of a non-collapsed selection the attributes of
\* its first text node; of a collapsed one those of the text before it, else
\* of the text after it, else of the nearest text to the left, then right.
getAttributes(d, r) ==
    IF ~isCollapsed(r) THEN firstTextIn(d, r[1] + 1, r[2]).attrs
    ELSE LET before == siblingTextBefore(d, r[1])
             after == siblingTextAfter(d, r[1] + 1)
         IN  IF r[1] >= 1 /\ isText(d[r[1]]) THEN d[r[1]].attrs
             ELSE IF r[1] < Len(d) /\ isText(d[r[1] + 1]) THEN d[r[1] + 1].attrs
             ELSE IF before.found THEN before.attrs
             ELSE after.attrs

\* ------------------------------------------------------------- state

VARIABLES
    doc,               \* the model document: the root's nodes
    sel,               \* the document selection's first range
    draggedRange,      \* this._draggedRange: a live range, or NoRange for null
    orphans,           \* a live range the plugin made is attached and unreferenced
    markers,           \* model.markers: the range of each drop-target marker
    thr,               \* the state of the throttled _updateMarkersThrottled
    draggableElement,  \* this._draggableElement, or NoElement for null
    draggable,         \* the view elements that carry the draggable attribute
    isReadOnly,        \* editor.isReadOnly
    browser,           \* the engine env reports: "gecko", "blink" or "webkit"
    destroyed,         \* destroy() ran: the plugin listens to nothing
    evt,               \* the last event handled, with its inputs
    trace              \* what the handler of the last event did, in order

vars == <<doc, sel, draggedRange, orphans, markers, thr, draggableElement,
          draggable, isReadOnly, browser, destroyed, evt, trace>>

\* The state a handler works on, as one value: handlers are operators from
\* such a value to the value they leave.  detached says that the live range
\* this._draggedRange refers to was detached; depth is the nesting of
\* model.change blocks and is 0 between events; modelFragment and
\* textAttributes are the locals of the inputTransformation listener.
Cur ==
    [doc |-> doc, sel |-> sel, draggedRange |-> draggedRange, orphans |-> orphans,
     markers |-> markers, thr |-> thr,
     draggableElement |-> draggableElement, draggable |-> draggable,
     detached |-> FALSE, depth |-> 0, stopped |-> FALSE, threw |-> FALSE, trace |-> <<>>,
     modelFragment |-> <<>>, textAttributes |-> NoAttrs, dataTransfer |-> <<>>]

Did(st, what) == [st EXCEPT !.trace = Append(@, what)]

\* Whether a handler whose trace is t did what.
Has(t, what) == \E i \in DOMAIN t : t[i] = what

\* A handler that threw does nothing more: every step leaves a state that
\* threw as it is.
Throw(st, what) == [Did(st, what) EXCEPT !.threw = TRUE]

\* model.change( callback ) / model.enqueueChange: the outermost block is a
\* transaction of its own, a block opened inside another one joins it.
OpenChange(st) ==
    IF st.threw THEN st
    ELSE [Did(st, IF st.depth = 0 THEN "change" ELSE "change:nested") EXCEPT !.depth = @ + 1]

CloseChange(st) ==
    IF st.threw THEN st
    ELSE [(IF st.depth = 1 THEN Did(st, "change:end") ELSE st) EXCEPT !.depth = @ - 1]

\* ----------------------------------------------------------- markers

NoMarkers == [position |-> NoRange, range |-> NoRange]

hasMarker(st, name) == st.markers[name] # NoRange

\* writer.addMarker: a marker of that name must not exist.
addMarker(st, name, range) ==
    IF st.threw THEN st
    ELSE IF hasMarker(st, name) THEN Throw(st, "throw:marker-exists")
    ELSE [Did(st, IF name = "position" THEN "addMarker:position" ELSE "addMarker:range")
            EXCEPT !.markers[name] = range]

\* writer.updateMarker: the marker must exist.
updateMarker(st, name, range) ==
    IF st.threw THEN st
    ELSE IF ~hasMarker(st, name) THEN Throw(st, "throw:marker-missing")
    ELSE [Did(st, IF name = "position" THEN "updateMarker:position" ELSE "updateMarker:range")
            EXCEPT !.markers[name] = range]

\* writer.removeMarker: the marker must exist.
removeMarker(st, name) ==
    IF st.threw THEN st
    ELSE IF ~hasMarker(st, name) THEN Throw(st, "throw:marker-missing")
    ELSE [Did(st, IF name = "position" THEN "removeMarker:position" ELSE "removeMarker:range")
            EXCEPT !.markers[name] = NoRange]

\* showMarker that leaves a marker of the kind where it is.
showMarker_keepsShown(st, markerName, otherMarkerName, targetRange) ==
    IF hasMarker(st, markerName) THEN st
    ELSE addMarker(IF hasMarker(st, otherMarkerName)
                   THEN removeMarker(st, otherMarkerName)
                   ELSE st,
                   markerName, targetRange)

\* showMarker without the removal of the marker of the other kind.
showMarker_keepOther(st, markerName, otherMarkerName, targetRange) ==
    IF hasMarker(st, markerName)
    THEN IF st.markers[markerName] # targetRange
         THEN updateMarker(st, markerName, targetRange)
         ELSE st
    ELSE addMarker(st, markerName, targetRange)

\* The change callback of the function given to throttle(): show targetRange
\* as the one drop-target marker of its kind.
showMarker(st, markerName, otherMarkerName, targetRange) ==
    IF hasMarker(st, markerName)
    THEN IF st.markers[markerName] # targetRange
         THEN updateMarker(st, markerName, targetRange)
         ELSE st
    ELSE addMarker(IF hasMarker(st, otherMarkerName)
                   THEN removeMarker(st, otherMarkerName)
                   ELSE st,
                   markerName, targetRange)

\* The function given to throttle().
updateMarkers(st, targetRange) ==
    CloseChange(showMarker(OpenChange(st),
                           IF isCollapsed(targetRange) THEN "position" ELSE "range",
                           IF ~isCollapsed(targetRange) THEN "position" ELSE "range",
                           targetRange))

\* ---------------------------------------------------------- throttle
\* lodash throttle( func, wait ) is debounce( func, wait, { leading: true,
\* maxWait: wait, trailing: true } ).  Of the clock the model keeps one fact,
\* fresh: less than wait has passed since the last call and since the last
\* invocation.  While the timer runs no invocation is later than the last
\* call, so the timer is due exactly when fresh is over.

ThrottleIdle == [timer |-> FALSE, lastArgs |-> NoRange, fresh |-> FALSE]

\* debounce's shouldInvoke( time ).
shouldInvoke(t) == ~t.fresh

\* debounce's invokeFunc( time ): forget the arguments, note the time, call.
invokeFunc(st, args) ==
    updateMarkers(Did([st EXCEPT !.thr.lastArgs = NoRange], "invokeFunc"), args)

\* A call of the throttled function, debounced(): on the leading edge, or when
\* the timer is late, it invokes at once; otherwise it leaves the arguments
\* for the timer.
callThrottled(st, targetRange) ==
    IF shouldInvoke(st.thr)
    THEN invokeFunc([st EXCEPT !.thr.fresh = TRUE, !.thr.timer = TRUE], targetRange)
    ELSE [st EXCEPT !.thr.lastArgs = targetRange, !.thr.fresh = TRUE, !.thr.timer = TRUE]

\* debounce's timerExpired() at its due time, which is trailingEdge( time ).
\* recentCall: the last call is less than wait ago, by which the invocation
\* made here starts a fresh window.
trailingEdge(st, recentCall) ==
    IF st.thr.lastArgs # NoRange
    THEN invokeFunc([st EXCEPT !.thr.timer = FALSE, !.thr.fresh = recentCall], st.thr.lastArgs)
    ELSE [st EXCEPT !.thr.timer = FALSE]

\* debounced.cancel()
cancelThrottled(st) ==
    IF st.threw THEN st
    ELSE [Did(st, IF st.thr.lastArgs # NoRange THEN "cancel:pending" ELSE "cancel")
            EXCEPT !.thr = ThrottleIdle]

\* ------------------------------------------------- the drag session

\* if ( markers.has( name ) ) model.change( writer => writer.removeMarker( name ) )
removeMarkerIfPresent(st, name) ==
    IF hasMarker(st, name) THEN CloseChange(removeMarker(OpenChange(st), name)) ELSE st

\* _removeDraggingMarkers() without the cancel() of the throttled function.
removeDraggingMarkers_noCancel(st) ==
    removeMarkerIfPresent(removeMarkerIfPresent(st, "position"), "range")

\* _removeDraggingMarkers()
removeDraggingMarkers(st) ==
    removeMarkerIfPresent(removeMarkerIfPresent(cancelThrottled(st), "position"), "range")

\* _clearDraggableAttributes()
clearDraggableAttributes(st) ==
    IF st.threw \/ st.draggableElement = NoElement THEN st
    ELSE [Did(st, "removeAttribute:draggable")
            EXCEPT !.draggable = @ \ {st.draggableElement},
                   !.draggableElement = NoElement]

\* The nodes of range r go, and every live range follows.
removeContent(st, r, what) ==
    IF st.threw THEN st
    ELSE [Did(st, what)
            EXCEPT !.doc = RemoveNodes(@, r[1], r[2]),
                   !.sel = RangeAfterRemove(@, r[1], r[2]),
                   !.draggedRange = RangeAfterRemove(@, r[1], r[2]),
                   !.markers = [n \in DOMAIN @ |-> RangeAfterRemove(@[n], r[1], r[2])]]

\* model.deleteContent( selection ) for a selection made of range r.
\* ofSelection says that r is the document selection itself, which is then
\* left collapsed at r's start.
deleteContent(st, r, ofSelection) ==
    IF st.threw THEN st
    ELSE IF r = NoRange THEN Throw(st, "throw:null-range")
    ELSE IF isCollapsed(r) THEN st
    ELSE CloseChange(removeContent(OpenChange(st), r,
                                   IF ofSelection THEN "deleteContent:selection"
                                   ELSE "deleteContent:dragged"))

\* this._draggedRange.detach()
detachDragged(st) ==
    IF st.threw THEN st
    ELSE IF st.draggedRange = NoRange THEN Throw(st, "throw:null-range")
    ELSE [Did(st, "detach") EXCEPT !.detached = TRUE]

\* this._draggedRange = range: a live range that is still attached when
\* the last reference to it goes stays attached for good.
setDraggedRange(st, range) ==
    IF st.threw THEN st
    ELSE [st EXCEPT !.draggedRange = range,
                    !.orphans = @ \/ (st.draggedRange # NoRange /\ ~st.detached),
                    !.detached = FALSE]

\* releaseDraggedRange without the test of this._draggedRange.
releaseDraggedRange_unguarded(st, moved) ==
    setDraggedRange(
      detachDragged(IF moved THEN deleteContent(st, st.draggedRange, FALSE) ELSE st),
      NoRange)

\* The end of _finalizeDragging( moved ): the dragged content goes if it was
\* moved, and the live range is detached and forgotten.
releaseDraggedRange(st, moved) ==
    IF st.threw \/ st.draggedRange = NoRange THEN st
    ELSE setDraggedRange(
           detachDragged(IF moved THEN deleteContent(st, st.draggedRange, FALSE) ELSE st),
           NoRange)

\* _finalizeDragging( moved )
finalizeDragging(st, moved) ==
    releaseDraggedRange(
        clearDraggableAttributes(removeDraggingMarkers(Did(st, "finalize"))), moved)

\* ------------------------------------------------ drop target lookup
\* An element is named by its path from the root: <<>> is the root, <<i>> the
\* node doc[i], <<i, 1>> the limit element inside the object doc[i].  A
\* position is [parent |-> element, offset |-> n].

Root == <<>>

kindAt(d, el) ==
    IF el = Root THEN "root" ELSE IF Len(el) = 1 THEN d[el[1]].kind ELSE "L"

parentOf(el) == SubSeq(el, 1, Len(el) - 1)

\* The elements of document d.
Elements(d) ==
    {Root} \cup { <<i>> : i \in { j \in 1..Len(d) : ~isText(d[j]) } }
           \cup { <<i, 1>> : i \in { j \in 1..Len(d) : d[j].kind = "WL" } }

\* model.createRangeOn( element ), for a node of the root.
createRangeOn(el) == <<el[1] - 1, el[1]>>

\* schema.checkChild( position, '$text' ): only the root accepts text.
checkChildText(pos) == pos.parent = Root

RECURSIVE nearestLimit(_, _)
\* The limit element a selection search from inside el may not leave.
nearestLimit(d, el) ==
    IF isLimit(kindAt(d, el)) THEN el ELSE nearestLimit(d, parentOf(el))

\* schema.getNearestSelectionRange( position, direction ): the position
\* itself where text is allowed there; else the first place for a selection
\* a walk in the direction finds without leaving the limit element.  The
\* elements are empty and accept no text, so a walk inside a limit other than
\* the root finds nothing, and a walk out of a container "S" ends right
\* before it (backward) or right after it (forward).
getNearestSelectionRange(d, pos, direction) ==
    IF checkChildText(pos) THEN <<pos.offset, pos.offset>>
    ELSE IF nearestLimit(d, pos.parent) # Root THEN NoRange
    ELSE IF direction = "backward" THEN <<pos.parent[1] - 1, pos.parent[1] - 1>>
    ELSE <<pos.parent[1], pos.parent[1]>>

\* findObjectAncestorRange that looks at the element alone.
findObjectAncestorRange_selfOnly(d, element) ==
    IF isObject(kindAt(d, element)) THEN createRangeOn(element) ELSE NoRange

RECURSIVE findObjectAncestorRange(_, _)
\* findObjectAncestorRange( model, element )
findObjectAncestorRange(d, element) ==
    IF isObject(kindAt(d, element)) THEN createRangeOn(element)
    ELSE IF element = Root THEN NoRange
    ELSE findObjectAncestorRange(d, parentOf(element))

\* What a drop or dragging event says about its place: targetRanges (hasPos:
\* the event has them, pos: the model position the mapper gives for the first
\* one's start) and target (mapped: the mapper knows the view element, elem:
\* its model element, or that of its nearest mapped ancestor).
Hint(hasPos, pos, mapped, elem) ==
    [hasPos |-> hasPos, pos |-> pos, mapped |-> mapped, elem |-> elem]

At(el, n) == [parent |-> el, offset |-> n]

\* The hints the view can give over document d.
Hints(d) ==
    { Hint(TRUE, At(Root, k), TRUE, Root) : k \in 0..Len(d) }
    \cup { Hint(TRUE, At(el, 0), TRUE, el) : el \in Elements(d) \ {Root} }
    \cup { Hint(FALSE, At(Root, 0), TRUE, el) : el \in Elements(d) }
    \cup { Hint(FALSE, At(Root, 0), FALSE, Root) }

\* findDropTargetRange( editor, targetViewRanges, targetViewElement )
findDropTargetRange(d, gecko, hint) ==
    LET targetModelElement == hint.elem
    IN  IF ~hint.hasPos
        THEN LET newRange == getNearestSelectionRange(d, At(targetModelElement, 0), "forward")
             IN  IF newRange # NoRange THEN newRange
                 ELSE findObjectAncestorRange(d, targetModelElement)
        ELSE LET newRange == getNearestSelectionRange(d, hint.pos,
                                 IF gecko THEN "forward" ELSE "backward")
             IN  IF newRange # NoRange THEN newRange
                 ELSE findObjectAncestorRange(d, hint.pos.parent)

\* ------------------------------------------------- clipboard content
\* Markup is a sequence of nodes [tag, ch, kids]: a text "#text" or a bold
\* text "strong" (ch its character), a paragraph "p" (kids its inline
\* nodes), an image "img", an empty unknown element "div", a comment.
\* Plain text is a sequence of characters and paragraph breaks "\n\n".

HText(c) == [tag |-> "#text", ch |-> c, kids |-> <<>>]

HStrong(c) == [tag |-> "strong", ch |-> c, kids |-> <<>>]

HPara(kids) == [tag |-> "p", ch |-> "", kids |-> kids]

HImg == [tag |-> "img", ch |-> "", kids |-> <<>>]

HDiv == [tag |-> "div", ch |-> "", kids |-> <<>>]

HComment == [tag |-> "#comment", ch |-> "", kids |-> <<>>]

Break == "\n\n"

IsNotComment(n) == n.tag # "#comment"

\* normalizeClipboardHtml( data ): the markup without its comments.
normalizeClipboardHtml(html) == SelectSeq(html, IsNotComment)

RECURSIVE splitParagraphs(_)
\* The runs of characters between the paragraph breaks of a plain text.
splitParagraphs(text) ==
    IF \A i \in 1..Len(text) : text[i] # Break THEN <<text>>
    ELSE LET k == CHOOSE i \in 1..Len(text) :
                      text[i] = Break /\ \A j \in 1..(i - 1) : text[j] # Break
         IN  <<SubSeq(text, 1, k - 1)>> \o splitParagraphs(SubSeq(text, k + 1, Len(text)))

\* plainTextToHtml( text ): the characters as they are, or one paragraph per
\* run when the text has paragraph breaks.
plainTextToHtml(text) ==
    LET runs == splitParagraphs(text)
        inline(run) == [i \in 1..Len(run) |-> HText(run[i])]
    IN  IF Len(runs) = 1 THEN inline(text)
        ELSE [r \in 1..Len(runs) |-> HPara(inline(runs[r]))]

\* A child of a model document fragment: a text, a paragraph (kids its
\* texts) or an object.
FragText(c, attrs) == [kind |-> "text", ch |-> c, attrs |-> attrs, kids |-> <<>>]

FragPara(kids) == [kind |-> "paragraph", ch |-> "", attrs |-> NoAttrs, kids |-> kids]

FragObject == [kind |-> "W", ch |-> "", attrs |-> NoAttrs, kids |-> <<>>]

Bold == {<<"bold", "true">>}

\* The text a view text node (plain, or inside strong) converts to.
inlineToModel(n) == Text(n.ch, IF n.tag = "strong" THEN Bold ELSE NoAttrs)

RECURSIVE toModel(_)
\* dataController.toModel( content, '$clipboardHolder' ): what converts, in
\* order; an unknown element converts to nothing.
toModel(view) ==
    IF view = <<>> THEN <<>>
    ELSE LET n == Head(view)
             first == CASE n.tag \in {"#text", "strong"} ->
                               <<FragText(n.ch, inlineToModel(n).attrs)>>
                        [] n.tag = "p" ->
                               <<FragPara([i \in 1..Len(n.kids) |-> inlineToModel(n.kids[i])])>>
                        [] n.tag = "img" -> <<FragObject>>
                        [] OTHER -> <<>>
         IN  first \o toModel(Tail(view))

RECURSIVE flatten(_)
\* The nodes a fragment puts into the root: its texts and objects, those of
\* its paragraphs included.
flatten(fragment) ==
    IF fragment = <<>> THEN <<>>
    ELSE LET c == Head(fragment)
         IN  (IF c.kind = "paragraph" THEN c.kids
              ELSE <<[kind |-> c.kind, ch |-> c.ch, attrs |-> c.attrs]>>)
             \o flatten(Tail(fragment))

\* isPlainTextFragment without the look at the child's attributes.
isPlainTextFragment_ignoresAttributes(documentFragment) ==
    Len(documentFragment) = 1 /\ ~isObject(documentFragment[1].kind)

\* isPlainTextFragment( documentFragment, schema )
isPlainTextFragment(documentFragment) ==
    IF Len(documentFragment) > 1 THEN FALSE
    ELSE LET child == documentFragment[1]
         IN  IF isObject(child.kind) THEN FALSE
             ELSE Cardinality(AttrKeys(child.attrs)) = 0

\* toMap of the list textAttributes after textAttributes.push( ...pushed ):
\* of two pairs with one key the later one stays.
toMap(textAttributes, pushed) ==
    pushed \cup { p \in textAttributes : p[1] \notin AttrKeys(pushed) }

\* writer.setAttributes( attributes, item ): the item keeps what it has
\* under other keys.
setAttributes(attributes, itemAttrs) ==
    attributes \cup { p \in itemAttrs : p[1] \notin AttrKeys(attributes) }

\* The loop over range.getItems() of the fragment: every text of it, at any
\* depth, gets the attributes.
setTextAttributes(fragment, attributes) ==
    LET onText(n) == [n EXCEPT !.attrs = setAttributes(attributes, @)]
    IN  [i \in 1..Len(fragment) |->
            IF fragment[i].kind = "text" THEN onText(fragment[i])
            ELSE IF fragment[i].kind = "paragraph"
            THEN [fragment[i] EXCEPT !.kids = [k \in 1..Len(@) |-> onText(@[k])]]
            ELSE fragment[i]]

\* The nodes come in at the selection, which ends after them; every live
\* range follows.
insertNodes(st, nodes) ==
    IF st.threw THEN st
    ELSE [Did(st, "insertContent")
            EXCEPT !.doc = InsertNodes(@, st.sel[1], nodes),
                   !.sel = <<st.sel[1] + Len(nodes), st.sel[1] + Len(nodes)>>,
                   !.draggedRange = RangeAfterInsert(@, st.sel[1], Len(nodes)),
                   !.markers = [n \in DOMAIN @ |-> RangeAfterInsert(@[n], st.sel[1], Len(nodes))]]

\* model.deleteContent( selection ) of the document selection.
deleteSelected(st) == deleteContent(st, st.sel, TRUE)

\* model.insertContent( fragment ): the selected content goes, the
\* fragment's nodes come in its place and the selection ends after them.
insertContent(st, fragment) ==
    CloseChange(insertNodes(deleteSelected(OpenChange(st)), flatten(fragment)))

\* ---------------------------------------------- the input pipeline

\* The drop effect the inputTransformation listener reads.
readDropEffect(gecko, data) == IF gecko THEN data.dropEffect ELSE data.effectAllowed

\* const textAttributes = the selection's formatting attributes
captureFormatting(st) ==
    IF st.threw THEN st
    ELSE [st EXCEPT !.textAttributes =
                        { p \in getAttributes(st.doc, st.sel) : isFormatting(p[1]) }]

\* textAttributes.push( ...selection.getAttributes() )
pushSurviving(st) ==
    IF st.threw THEN st
    ELSE [st EXCEPT !.textAttributes = toMap(@, getAttributes(st.doc, st.sel))]

\* The loop that sets textAttributes on the fragment's texts.
applyTextAttributes(st) ==
    IF st.threw THEN st
    ELSE [Did(st, "setAttributes")
            EXCEPT !.modelFragment = setTextAttributes(@, st.textAttributes)]

\* The plain-text branch of the inputTransformation listener.
preserveAttributes(st) ==
    applyTextAttributes(pushSurviving(deleteSelected(captureFormatting(st))))

\* model.insertContent( modelFragment )
insertFragment(st) == insertContent(st, st.modelFragment)

\* The change callback of the inputTransformation listener.
transformInput(st, moved, asPlainText) ==
    insertFragment(
        IF asPlainText \/ isPlainTextFragment(st.modelFragment)
        THEN preserveAttributes(finalizeDragging(st, moved))
        ELSE finalizeDragging(st, moved))

\* evt.stop() of the inputTransformation event.
stopTransformation(st) ==
    IF st.threw THEN st
    ELSE [Did(st, "stop:inputTransformation") EXCEPT !.stopped = TRUE]

\* The inputTransformation listener without the model.change around its
\* steps.
inputTransformation_noChange(st, data, gecko) ==
    IF data.content = <<>> THEN st
    ELSE IF Len(toModel(data.content)) = 0 THEN st
    ELSE stopTransformation(
           transformInput([st EXCEPT !.modelFragment = toModel(data.content)],
                          readDropEffect(gecko, data) \in {"move", "copyMove"},
                          data.asPlainText))

\* The inputTransformation listener with evt.stop() on every path.
inputTransformation_stopsAlways(st, data, gecko) ==
    IF data.content = <<>> THEN stopTransformation(st)
    ELSE IF Len(toModel(data.content)) = 0 THEN stopTransformation(st)
    ELSE stopTransformation(CloseChange(
           transformInput(OpenChange([st EXCEPT !.modelFragment = toModel(data.content)]),
                          readDropEffect(gecko, data) \in {"move", "copyMove"},
                          data.asPlainText)))

\* The listener of inputTransformation.  data is [content, dropEffect,
\* effectAllowed, asPlainText].
inputTransformation(st, data, gecko) ==
    IF data.content = <<>> THEN st
    ELSE IF Len(toModel(data.content)) = 0 THEN st
    ELSE stopTransformation(CloseChange(
           transformInput(OpenChange([st EXCEPT !.modelFragment = toModel(data.content)]),
                          readDropEffect(gecko, data) \in {"move", "copyMove"},
                          data.asPlainText)))

\* The content the clipboardInput listener makes of a data transfer.
contentOf(data) ==
    IF data.html # <<>> THEN normalizeClipboardHtml(data.html)
    ELSE IF data.plain # <<>> THEN plainTextToHtml(data.plain)
    ELSE <<>>

\* isDropOnSelf that never finds the drop on the dragged content.
isDropOnSelf_never(st) == FALSE

\* Whether the drop lands on the dragged content itself.
isDropOnSelf(st) ==
    st.draggedRange # NoRange /\ containsRange(st.draggedRange, st.sel, TRUE)

\* if ( eventInfo.stop.called ) evt.stop(); view.scrollToTheSelection()
afterTransformation(st) ==
    IF st.threw THEN st
    ELSE Did(IF st.stopped THEN Did(st, "stop:clipboardInput") ELSE st,
             "scrollToTheSelection")

\* The end of the clipboardInput listener: the inputTransformation event is
\* fired with the content.
fireInputTransformation(st, data, gecko) ==
    afterTransformation(
        inputTransformation(Did(st, "fire:inputTransformation"),
            [content |-> contentOf(data), dropEffect |-> data.dropEffect,
             effectAllowed |-> data.effectAllowed, asPlainText |-> data.asPlainText],
            gecko))

\* model.change( writer => writer.setSelection( targetRange ) )
setSelection(st, targetRange) ==
    CloseChange([Did(OpenChange(st), "setSelection") EXCEPT !.sel = targetRange])

\* The drop branch of the clipboardInput listener once the selection is on
\* the target.
dropOnSelection(st, data, gecko) ==
    IF isDropOnSelf(st) THEN finalizeDragging(st, FALSE)
    ELSE fireInputTransformation(st, data, gecko)

\* The drop branch with the test for a drop on the dragged content made on
\* the selection as it was before the drop.
dropOn_testsOldSelection(st, targetRange, data, gecko) ==
    IF targetRange = NoRange THEN finalizeDragging(st, FALSE)
    ELSE IF isDropOnSelf(st) THEN finalizeDragging(setSelection(st, targetRange), FALSE)
    ELSE fireInputTransformation(setSelection(st, targetRange), data, gecko)

\* The drop branch without the _finalizeDragging( false ) of a drop at no
\* target.
dropOn_noFinalize(st, targetRange, data, gecko) ==
    IF targetRange = NoRange THEN st
    ELSE dropOnSelection(setSelection(st, targetRange), data, gecko)

\* The drop branch of the clipboardInput listener.
dropOn(st, targetRange, data, gecko) ==
    IF targetRange = NoRange THEN finalizeDragging(st, FALSE)
    ELSE dropOnSelection(setSelection(st, targetRange), data, gecko)

\* The low-priority listener of clipboardInput.  data is [method, html,
\* plain, hint, dropEffect, effectAllowed, asPlainText].
onClipboardInput(st, data, gecko) ==
    IF data.method = "drop"
    THEN dropOn(st, findDropTargetRange(st.doc, gecko, data.hint), data, gecko)
    ELSE fireInputTransformation(st, data, gecko)

\* The clipboardInput listeners without the one that stops the event in a
\* read-only editor.
clipboardInput_ignoresReadOnly(st, data, readOnly, gecko) ==
    onClipboardInput(st, data, gecko)

\* The two listeners of clipboardInput in order: the first stops the event
\* in a read-only editor, and the second then never runs.
clipboardInput(st, data, readOnly, gecko) ==
    IF readOnly THEN Did(st, "stop:clipboardInput")
    ELSE onClipboardInput(st, data, gecko)

\* --------------------------------------------- the output pipeline

\* if ( method == 'cut' ) model.deleteContent( modelDocument.selection )
deleteIfCut(st, method) == IF method = "cut" THEN deleteSelected(st) ELSE st

\* The listener of clipboardOutput with the deletion of a cut before the
\* data is set.
clipboardOutput_deletesFirst(st, content, method) ==
    IF content # <<>>
    THEN [Did(deleteIfCut(st, method), "setData") EXCEPT !.dataTransfer = content]
    ELSE deleteIfCut(st, method)

\* The listener of clipboardOutput.  content is the selected content.
clipboardOutput(st, content, method) ==
    deleteIfCut(IF content # <<>>
                THEN [Did(st, "setData") EXCEPT !.dataTransfer = content]
                ELSE st,
                method)

\* model.getSelectedContent( selection ): a copy of the selected nodes.
getSelectedContent(st) == SubSeq(st.doc, st.sel[1] + 1, st.sel[2])

\* onCopyCut( evt, data )
onCopyCut(st, method) ==
    clipboardOutput(Did(Did(st, "preventDefault"), "fire:clipboardOutput"),
                    getSelectedContent(st), method)

\* The listener of cut.
onCut(st, readOnly) ==
    IF readOnly THEN Did(st, "preventDefault") ELSE onCopyCut(st, "cut")

\* -------------------------------------------- drag and drop events

\* this._draggedRange = LiveRange.fromRange( selection.getFirstRange() )
startDraggedRange(st) == setDraggedRange(Did(st, "LiveRange.fromRange"), st.sel)

\* The listener of dragstart.  onRoot: the event's DOM target is the
\* editable root element.
onDragstart(st, onRoot) ==
    IF isCollapsed(st.sel) THEN Did(st, "preventDefault")
    ELSE IF onRoot THEN Did(st, "preventDefault")
    ELSE clipboardOutput(Did(startDraggedRange(Did(st, "effectAllowed:copyMove")),
                             "fire:clipboardOutput"),
                         getSelectedContent(st), "dragstart")

\* The listener of dragend.
onDragend(st, isCanceled, dropEffect) ==
    finalizeDragging(st, ~isCanceled /\ dropEffect = "move")

\* The listener of dragleave.
onDragleave(st, hasRelatedTarget) ==
    IF ~hasRelatedTarget THEN removeDraggingMarkers(Did(st, "leftEditor")) ELSE st

\* The dragging listener once the target is known.
showTarget(st, targetRange) ==
    IF targetRange # NoRange THEN callThrottled(st, targetRange)
    ELSE Did(st, "dropEffect:none")

\* The listener of dragging.
onDragging(st, hint, readOnly, gecko) ==
    IF readOnly THEN Did(st, "dropEffect:none")
    ELSE showTarget(st, findDropTargetRange(st.doc, gecko, hint))

\* getSelectedElement(): the one element the selection is on, if any.
hasSelectedElement(st) ==
    st.sel[2] = st.sel[1] + 1 /\ ~isText(st.doc[st.sel[2]])

\* The element the mousedown listener picks: the widget whose selection
\* handle the pointer is on, in Blink the editable while a text range is
\* selected, else the widget the pointer is in.
pickDraggable(st, where, blink) ==
    IF where = "handle" THEN "widget"
    ELSE IF blink /\ ~isCollapsed(st.sel) /\ ~hasSelectedElement(st) THEN "editable"
    ELSE IF where = "inWidget" THEN "widget"
    ELSE NoElement

\* if ( this._draggableElement ) writer.setAttribute( 'draggable', 'true', it )
markDraggable(st) ==
    IF st.draggableElement # NoElement
    THEN [Did(st, "setAttribute:draggable") EXCEPT !.draggable = @ \cup {st.draggableElement}]
    ELSE st

\* The listener of mousedown.  where is what the pointer is on: the
\* selection "handle" of the widget, something else "inWidget", the
\* "editable" element itself, or an "other" element of the editable.
onMousedown(st, where, blink) ==
    markDraggable(IF pickDraggable(st, where, blink) # NoElement
                  THEN [st EXCEPT !.draggableElement = pickDraggable(st, where, blink)]
                  ELSE st)

\* The listener of mouseup.
onMouseup(st) == clearDraggableAttributes(st)

\* destroy() without the cancel() of the throttled function.
onDestroy_noCancel(st) ==
    IF st.draggedRange # NoRange THEN setDraggedRange(detachDragged(st), NoRange) ELSE st

\* destroy() that forgets the live range without detaching it.
onDestroy_noDetach(st) ==
    cancelThrottled(IF st.draggedRange # NoRange THEN setDraggedRange(st, NoRange) ELSE st)

\* destroy()
onDestroy(st) ==
    cancelThrottled(IF st.draggedRange # NoRange
                    THEN setDraggedRange(detachDragged(st), NoRange)
                    ELSE st)

\* ------------------------------------------------------------ inputs

\* The document a drag session starts with.
DragDocs == { <<Text("a", NoAttrs), Element("W")>> }

\* What a dragged data transfer holds: nothing, or a plain text.
DragContents ==
    { [html |-> <<>>, plain |-> <<>>],
      [html |-> <<>>, plain |-> <<"x">>] }

\* The documents a paste goes into: text in a bold link, text of two font
\* sizes, and a text before an object.
PasteDocs ==
    { << Text("a", {<<"bold", "true">>, <<"linkHref", "X">>}),
         Text("b", {<<"bold", "true">>, <<"linkHref", "X">>}) >>,
      << Text("a", {<<"fontSize", "small">>}), Text("b", {<<"fontSize", "big">>}) >>,
      << Text("a", NoAttrs), Element("W") >> }

\* What a data transfer can hold: markup and plain text.
Contents ==
    { [html |-> <<>>, plain |-> <<>>],
      [html |-> <<>>, plain |-> <<"x">>],
      [html |-> <<HStrong("x")>>, plain |-> <<"x">>],
      [html |-> <<HImg>>, plain |-> <<>>],
      [html |-> <<HComment>>, plain |-> <<>>],
      [html |-> <<HDiv>>, plain |-> <<>>] }

\* The same, and markup of one paragraph and a plain text of two.
Fragments ==
    Contents \cup { [html |-> <<HPara(<<HText("x")>>)>>, plain |-> <<>>],
                    [html |-> <<>>, plain |-> <<"x", Break, "y">>] }

Input(method, c, hint, dropEffect, effectAllowed, asPlainText) ==
    [method |-> method, html |-> c.html, plain |-> c.plain, hint |-> hint,
     dropEffect |-> dropEffect, effectAllowed |-> effectAllowed, asPlainText |-> asPlainText]

\* The dropEffect and effectAllowed of a dropped data transfer.  The one the
\* listener does not read in this browser is held at one value.
DropEffects(gecko) ==
    IF gecko
    THEN { [dropEffect |-> e, effectAllowed |-> "copy"] : e \in {"copy", "move"} }
    ELSE { [dropEffect |-> "move", effectAllowed |-> e] : e \in {"copy", "copyMove"} }

\* What a data transfer converts to: "empty" content, content whose model
\* fragment is "childless", or "some" nodes.
payloadKind(c) ==
    IF contentOf(c) = <<>> THEN "empty"
    ELSE IF toModel(contentOf(c)) = <<>> THEN "childless"
    ELSE "some"

\* ----------------------------------------------------------- actions

isGecko == browser = "gecko"

isBlink == browser = "blink"

\* What the model remembers of an event: its name; of a dragend the event
\* before it, with a drop strictly inside the dragged range as "drop:inside"
\* and a drop that deleted the dragged content as "drop:moved"; the drop
\* target resolved for it; whether that target lies strictly inside the
\* dragged range; what its data transfer converts to; and whether it reports
\* a move; the content a copy, cut or dragstart set on the data transfer; the
\* model fragment a pasted data transfer converts to and the asPlainText
\* flag of the paste, where the action remembers them.
Event(name, target, payload, moved) ==
    [name |-> name,
     after |-> IF name # "dragend" THEN ""
               ELSE IF evt.name = "drop" /\ evt.inside THEN "drop:inside"
               ELSE IF evt.name = "drop" /\ Has(trace, "deleteContent:dragged") THEN "drop:moved"
               ELSE evt.name,
     target |-> target,
     inside |-> /\ target # NoRange
                /\ draggedRange # NoRange
                /\ draggedRange[1] < target[1]
                /\ target[2] < draggedRange[2],
     payload |-> payload,
     moved |-> moved,
     data |-> <<>>,
     fragment |-> <<>>,
     asPlainText |-> FALSE]

\* The event e was handled and left r.
Handled(e, r) ==
    /\ Len(r.doc) <= MaxDocLen
    /\ evt' = [e EXCEPT !.data = r.dataTransfer]
    /\ doc' = r.doc
    /\ sel' = r.sel
    /\ draggedRange' = r.draggedRange
    /\ orphans' = r.orphans
    /\ markers' = r.markers
    /\ thr' = r.thr
    /\ draggableElement' = r.draggableElement
    /\ draggable' = r.draggable
    /\ trace' = IF r.threw THEN Append(r.trace, "threw") ELSE r.trace
    /\ UNCHANGED <<isReadOnly, browser>>

PasteOf(contents) ==
    /\ ~destroyed
    /\ \E c \in contents, asPlainText \in BOOLEAN :
         Handled(Event("paste", NoRange, payloadKind(c), FALSE),
                 clipboardInput(Cur, Input("paste", c, Hint(FALSE, At(Root, 0), TRUE, Root),
                                           "none", "uninitialized", asPlainText),
                                isReadOnly, isGecko))
    /\ UNCHANGED destroyed

DropOf(contents) ==
    /\ ~destroyed
    /\ \E c \in contents, hint \in Hints(doc), effects \in DropEffects(isGecko) :
         Handled(Event("drop", findDropTargetRange(doc, isGecko, hint), payloadKind(c),
                       readDropEffect(isGecko, effects) \in {"move", "copyMove"}),
                 clipboardInput(Cur, Input("drop", c, hint, effects.dropEffect,
                                           effects.effectAllowed, FALSE),
                                isReadOnly, isGecko))
    /\ UNCHANGED destroyed

Copy ==
    /\ ~destroyed
    /\ Handled(Event("copy", NoRange, "", FALSE), onCopyCut(Cur, "copy"))
    /\ UNCHANGED destroyed

Cut ==
    /\ ~destroyed
    /\ Handled(Event("cut", NoRange, "", FALSE), onCut(Cur, isReadOnly))
    /\ UNCHANGED destroyed

Dragstart ==
    /\ ~destroyed
    /\ \E onRoot \in BOOLEAN : Handled(Event("dragstart", NoRange, "", FALSE), onDragstart(Cur, onRoot))
    /\ UNCHANGED destroyed

Dragend ==
    /\ ~destroyed
    /\ \E isCanceled \in BOOLEAN, dropEffect \in {"none", "copy", "move"} :
         Handled(Event("dragend", NoRange, "", ~isCanceled /\ dropEffect = "move"),
                 onDragend(Cur, isCanceled, dropEffect))
    /\ UNCHANGED destroyed

Dragleave ==
    /\ ~destroyed
    /\ \E hasRelatedTarget \in BOOLEAN :
         Handled(Event("dragleave", NoRange, "", FALSE), onDragleave(Cur, hasRelatedTarget))
    /\ UNCHANGED destroyed

Dragging ==
    /\ ~destroyed
    /\ \E hint \in Hints(doc) :
         Handled(Event("dragging", findDropTargetRange(doc, isGecko, hint), "", FALSE),
                 onDragging(Cur, hint, isReadOnly, isGecko))
    /\ UNCHANGED destroyed

\* The timer of the throttled function fires, wait or more after it was set.
ThrottleTimer ==
    /\ thr.timer
    /\ ~thr.fresh
    /\ \E recentCall \in BOOLEAN :
         /\ thr.lastArgs = NoRange => ~recentCall
         /\ Handled(Event("timer", NoRange, "", FALSE), trailingEdge(Cur, recentCall))
    /\ UNCHANGED destroyed

\* Time passes: the last call or the last invocation is now wait ago.
TimePasses ==
    /\ thr.fresh
    /\ thr' = [thr EXCEPT !.fresh = FALSE]
    /\ evt' = Event("wait", NoRange, "", FALSE)
    /\ trace' = <<>>
    /\ UNCHANGED <<doc, sel, draggedRange, orphans, markers, draggableElement,
                   draggable, isReadOnly, browser, destroyed>>

Mousedown ==
    /\ ~destroyed
    /\ \E where \in {"handle", "inWidget", "editable", "other"} :
         /\ where \in {"handle", "inWidget"} => \E i \in 1..Len(doc) : isObject(doc[i].kind)
         /\ Handled(Event("mousedown", NoRange, "", FALSE), onMousedown(Cur, where, isBlink))
    /\ UNCHANGED destroyed

Mouseup ==
    /\ ~destroyed
    /\ Handled(Event("mouseup", NoRange, "", FALSE), onMouseup(Cur))
    /\ UNCHANGED destroyed

\* The user puts the selection somewhere else.
SetSelection ==
    /\ ~destroyed
    /\ \E r \in Ranges(Len(doc)) :
         /\ r # sel
         /\ sel' = r
    /\ evt' = Event("select", NoRange, "", FALSE)
    /\ trace' = <<>>
    /\ UNCHANGED <<doc, draggedRange, orphans, markers, thr, draggableElement,
                   draggable, isReadOnly, browser, destroyed>>

Destroy ==
    /\ ~destroyed
    /\ Handled(Event("destroy", NoRange, "", FALSE), onDestroy(Cur))
    /\ destroyed' = TRUE

InitIn(docs, readOnly) ==
    /\ doc \in docs
    /\ sel \in Ranges(Len(doc))
    /\ draggedRange = NoRange
    /\ orphans = FALSE
    /\ markers = NoMarkers
    /\ thr = ThrottleIdle
    /\ draggableElement = NoElement
    /\ draggable = {}
    /\ isReadOnly = readOnly
    /\ browser \in {"gecko", "blink"}
    /\ destroyed = FALSE
    /\ evt = [name |-> "init", after |-> "", target |-> NoRange, inside |-> FALSE,
               payload |-> "", moved |-> FALSE, data |-> <<>>,
               fragment |-> <<>>, asPlainText |-> FALSE]
    /\ trace = <<>>

\* The editor starts editable.
InitOf(docs) == InitIn(docs, FALSE)

\* ---------------------------------------------------- specifications
\* The plugin is one program; each specification runs it in an environment
\* that sends some of the events, which keeps every one small enough to check
\* in full.

\* A drag session from start to end: the user selects, drags, drops, and
\* the editor may be destroyed at any point.
Init == InitOf(DragDocs)

DragDrop == DropOf(DragContents)

Next ==
    \/ SetSelection
    \/ Dragstart
    \/ DragDrop
    \/ Dragend
    \/ Destroy

Spec == Init /\ [][Next]_vars

\* The drop-target markers while something is dragged over the editor,
\* with the clock of the throttled marker update.
InitMarkers == InitOf(DragDocs)

NextMarkers ==
    \/ Dragging
    \/ TimePasses
    \/ ThrottleTimer
    \/ Dragleave
    \/ DragDrop
    \/ Dragend
    \/ Destroy

SpecMarkers == InitMarkers /\ [][NextMarkers]_vars

\* A drag of the editor's own content with its markers, up to the end of the
\* drag or of the editor.
InitTeardown == InitOf(DragDocs)

NextTeardown ==
    \/ Dragstart
    \/ Dragging
    \/ TimePasses
    \/ ThrottleTimer
    \/ Dragleave
    \/ Dragend
    \/ Destroy

SpecTeardown == InitTeardown /\ [][NextTeardown]_vars

\* Clipboard input from outside the editor, by paste and by drop, into
\* documents with text attributes and a selection anywhere.
InitPaste == InitOf(PasteDocs)

Paste == PasteOf(Contents)

NextPaste ==
    \/ Paste
    \/ DragDrop

SpecPaste == InitPaste /\ [][NextPaste]_vars

\* A read-only editor: every clipboard and drag event on a document that
\* has a selection anywhere.
InitReadOnly == InitIn(DragDocs, TRUE)

NextReadOnly ==
    \/ SetSelection
    \/ Paste
    \/ DragDrop
    \/ Copy
    \/ Cut
    \/ Dragstart
    \/ Dragging
    \/ Dragleave
    \/ Dragend

SpecReadOnly == InitReadOnly /\ [][NextReadOnly]_vars

\* The pointer: presses and releases around drag sessions and drops.
InitMouse == InitOf(DragDocs)

NextMouse ==
    \/ Mousedown
    \/ Mouseup
    \/ Dragstart
    \/ DragDrop
    \/ Dragend

SpecMouse == InitMouse /\ [][NextMouse]_vars

\* Drag sessions over a document with a limit element that is no object: a
\* drop or dragging event inside it resolves to no target.
LimitDocs == { <<Text("a", NoAttrs), Element("L")>> }

InitLimit == InitOf(LimitDocs)

NextLimit ==
    \/ Dragstart
    \/ Dragging
    \/ DragDrop
    \/ Dragend

SpecLimit == InitLimit /\ [][NextLimit]_vars

\* Copy, cut and the start of a drag over any selection.
InitOutput == InitOf(DragDocs)

NextOutput ==
    \/ SetSelection
    \/ Copy
    \/ Cut
    \/ Dragstart

SpecOutput == InitOutput /\ [][NextOutput]_vars

\* Pastes of every kind of fragment, one after another.
InitFragments == InitOf(DragDocs)

\* A paste that is remembered with the fragment its data transfer converts
\* to and with its asPlainText flag.
PasteFragments ==
    /\ ~destroyed
    /\ \E c \in Fragments, asPlainText \in BOOLEAN :
         Handled([Event("paste", NoRange, payloadKind(c), FALSE)
                    EXCEPT !.fragment = toModel(contentOf(c)),
                           !.asPlainText = asPlainText],
                 clipboardInput(Cur, Input("paste", c, Hint(FALSE, At(Root, 0), TRUE, Root),
                                           "none", "uninitialized", asPlainText),
                                isReadOnly, isGecko))
    /\ UNCHANGED destroyed

NextFragments == PasteFragments

SpecFragments == InitFragments /\ [][NextFragments]_vars

\* Dragging over every document of texts, objects, objects with an inner
\* limit element, limit elements and plain containers.
ResolverDocs ==
    UNION { [1..n -> { Text("a", NoAttrs), Element("W"), Element("WL"),
                       Element("L"), Element("S") }] : n \in 1..MaxDocLen }

InitResolver == InitOf(ResolverDocs)

NextResolver == Dragging

SpecResolver == InitResolver /\ [][NextResolver]_vars

\* Dragging events and the clock of the throttled function, with nothing
\* that ends the session.
InitThrottle == InitOf(DragDocs)

NextThrottle ==
    \/ Dragging
    \/ TimePasses
    \/ ThrottleTimer

SpecThrottle == InitThrottle /\ [][NextThrottle]_vars

\* ------------------------------------------------------------ claims

MarkerAdds == {"addMarker:position", "addMarker:range"}

MarkerUpdates == {"updateMarker:position", "updateMarker:range"}

MarkerRemovals == {"removeMarker:position", "removeMarker:range"}

\* C1: in every reachable state at most one of the markers
\* drop-target:position and drop-target:range exists, and a handler that
\* replaces the marker of one kind by one of the other kind removes the
\* stale marker before it adds the new one.
C1_OneDropTargetMarker ==
    /\ ~(markers.position # NoRange /\ markers.range # NoRange)
    /\ \A i, j \in DOMAIN trace :
          (trace[i] \in MarkerAdds /\ trace[j] \in MarkerRemovals) => j < i

\* The throttled update has replaced a range marker by a position marker.
C1_KindSwitched ==
    /\ \E i, j \in DOMAIN trace :
          j < i /\ trace[j] = "removeMarker:range" /\ trace[i] = "addMarker:position"
    /\ markers.position # NoRange
    /\ markers.range = NoRange

\* C2: a drop whose resolved target lies strictly inside the dragged range
\* leaves the document content as it was, and so does a dragend that follows
\* such a drop, whatever drop effect it reports.
C2_DropInsideSourceKeepsDocument ==
    [][ /\ (evt'.name = "drop" /\ evt'.inside) => doc' = doc
        /\ (evt.name = "drop" /\ evt.inside /\ evt'.name = "dragend") => doc' = doc
      ]_vars

\* A dragend reporting a move was handled right after a drop strictly inside
\* the dragged range.
C2_DragendAfterDropInside ==
    evt.name = "dragend" /\ evt.after = "drop:inside" /\ evt.moved

\* How often a handler whose trace is t did what.
Count(t, what) == Cardinality({ i \in DOMAIN t : t[i] = what })

\* C3: _finalizeDragging is idempotent: a call raises no error, deletes the
\* dragged content at most once, leaves _draggedRange detached and null, and
\* a call that finds the tracker idle deletes and detaches nothing.
C3_FinalizeIdempotent ==
    [][ Has(trace', "finalize") =>
          /\ ~Has(trace', "threw")
          /\ Count(trace', "deleteContent:dragged") <= 1
          /\ draggedRange' = NoRange
          /\ orphans' = orphans
          /\ draggedRange = NoRange =>
                ~Has(trace', "deleteContent:dragged") /\ ~Has(trace', "detach")
      ]_vars

\* A dragend reporting a move finalized right after a drop that had moved the
\* dragged content and finalized.
C3_FinalizedTwice ==
    /\ evt.name = "dragend" /\ evt.after = "drop:moved" /\ evt.moved
    /\ Has(trace, "finalize")
    /\ draggedRange = NoRange

\* C9: in every reachable state the only attached live range the plugin made
\* is the one _draggedRange refers to.
C9_OnlyHeldRangeAttached == ~orphans

\* Whether a handler whose trace is t added or updated a drop-target marker,
\* or invoked the throttled function at all.
ShowsMarker(t) ==
    \E i \in DOMAIN t : t[i] \in MarkerAdds \cup MarkerUpdates \cup {"invokeFunc"}

Finalizes(e, t) ==
    \/ e.name \in {"dragend", "destroy"}
    \/ Has(t, "finalize")
    \/ Has(t, "leftEditor")

\* C5: once the session finalizes or the plugin is destroyed, the pending
\* marker update is gone and the timer is off, the handler shows no marker,
\* and while the throttle is idle only a dragging event shows a marker.
C5_NoUpdateAfterFinalize ==
    [][ /\ Finalizes(evt', trace') => (thr' = ThrottleIdle /\ ~ShowsMarker(trace'))
        /\ (thr = ThrottleIdle /\ ShowsMarker(trace')) => evt'.name = "dragging"
      ]_vars

\* A dragleave out of the editor found a marker update pending.
C5_LeftWithPendingUpdate ==
    evt.name = "dragleave" /\ Has(trace, "cancel:pending") /\ thr = ThrottleIdle

\* C8: when a drop has been handled, no drop-target marker exists, no marker
\* update is pending and no element carries the draggable attribute.
C8_DropFinalizesSession ==
    evt.name = "drop" =>
        /\ markers = NoMarkers
        /\ thr.lastArgs = NoRange
        /\ draggable = {}

\* C10: destroy() in any session state detaches and nulls _draggedRange if
\* one is held, cancels the pending marker update, leaves the document as it
\* is and raises no error.
C10_DestroyReleases ==
    [][ evt'.name = "destroy" =>
          /\ ~Has(trace', "threw")
          /\ draggedRange # NoRange => Has(trace', "detach")
          /\ draggedRange' = NoRange
          /\ orphans' = orphans
          /\ thr' = ThrottleIdle
          /\ doc' = doc
      ]_vars

\* destroy() ran while a range was dragged and a marker update was pending.
C10_DestroyedMidDrag ==
    evt.name = "destroy" /\ Has(trace, "detach") /\ Has(trace, "cancel:pending")

\* What a handler whose trace is t did after it fired inputTransformation.
AfterFire(t) ==
    LET k == CHOOSE i \in DOMAIN t : t[i] = "fire:inputTransformation"
    IN  { t[i] : i \in (k + 1)..Len(t) }

\* C6: the inputTransformation listener, given empty content or content
\* whose model fragment has no children, opens no change block, inserts
\* nothing, deletes nothing and does not stop the event.
C6_EmptyInputIgnored ==
    (evt.payload \in {"empty", "childless"} /\ Has(trace, "fire:inputTransformation")) =>
        AfterFire(trace) \cap {"change", "change:nested", "insertContent",
                               "deleteContent:selection", "deleteContent:dragged",
                               "stop:inputTransformation", "stop:clipboardInput"} = {}

\* inputTransformation was fired with content that converts to a fragment
\* without children.
C6_ChildlessFragmentFired ==
    evt.payload = "childless" /\ Has(trace, "fire:inputTransformation")

\* C7: the texts of a fragment inserted as plain text carry the selection's
\* formatting attributes from before the selected content was deleted and
\* all attributes the selection has after that.
C7_PlainTextCarriesUnion ==
    [][ (evt'.name \in {"paste", "drop"} /\ Has(trace', "setAttributes")) =>
          LET at == IF evt'.name = "drop" THEN evt'.target ELSE sel
              captured == { p \in getAttributes(doc, at) : isFormatting(p[1]) }
              surviving == getAttributes(RemoveNodes(doc, at[1], at[2]), <<at[1], at[1]>>)
          IN  \A k \in (at[1] + 1)..sel'[1] :
                 isText(doc'[k]) => (captured \cup surviving) \subseteq doc'[k].attrs
      ]_vars

\* C11: in a read-only editor a paste or drop fires no inputTransformation
\* and changes neither document nor selection; a cut sets no data and
\* deletes nothing; a copy fires clipboardOutput and sets the data of the
\* selected content; a dragging event sets dropEffect to 'none' and calls
\* the throttled marker update not at all.
C11_ReadOnlySuppressesInput ==
    [][ isReadOnly =>
          /\ evt'.name \in {"paste", "drop"} =>
                /\ ~Has(trace', "fire:inputTransformation")
                /\ doc' = doc /\ sel' = sel
          /\ evt'.name = "cut" =>
                /\ ~Has(trace', "fire:clipboardOutput") /\ ~Has(trace', "setData")
                /\ doc' = doc
          /\ evt'.name = "copy" =>
                /\ Has(trace', "fire:clipboardOutput")
                /\ ~isCollapsed(sel) => Has(trace', "setData")
                /\ doc' = doc
          /\ evt'.name = "dragging" =>
                /\ Has(trace', "dropEffect:none")
                /\ ~ShowsMarker(trace')
                /\ thr' = thr /\ markers' = markers
      ]_vars

\* A read-only editor was given a paste of content that converts to nodes.
C11_PastedIntoReadOnly ==
    isReadOnly /\ evt.name = "paste" /\ evt.payload = "some"

\* C12: in every reachable state at most one view element carries the
\* draggable attribute, and that element is the one _draggableElement
\* refers to.
C12_OneDraggableElement ==
    /\ Cardinality(draggable) <= 1
    /\ draggable \subseteq ({draggableElement} \ {NoElement})

\* C13: a drop for which findDropTargetRange finds no target changes neither
\* selection nor document, fires no inputTransformation, inserts nothing and
\* deletes no dragged content, and it finalizes the session (markers gone,
\* throttle idle, draggable attribute cleared, dragged range released); the
\* dragend that follows it deletes nothing either.
C13_DropWithoutTargetCommitsNothing ==
    [][ /\ (evt'.name = "drop" /\ evt'.target = NoRange) =>
              /\ sel' = sel /\ doc' = doc
              /\ ~Has(trace', "setSelection")
              /\ ~Has(trace', "fire:inputTransformation")
              /\ ~Has(trace', "insertContent")
              /\ ~Has(trace', "deleteContent:dragged")
              /\ Has(trace', "finalize")
              /\ draggedRange' = NoRange
              /\ markers' = NoMarkers /\ thr' = ThrottleIdle /\ draggable' = {}
        /\ (evt.name = "drop" /\ evt.target = NoRange /\ evt'.name = "dragend") =>
              /\ doc' = doc
              /\ ~Has(trace', "deleteContent:dragged")
      ]_vars

\* A drop at no target ended a drag session: it detached the dragged range.
C13_SessionDroppedNowhere ==
    evt.name = "drop" /\ evt.target = NoRange /\ Has(trace, "detach")


\* C14: a drop that is suppressed, for want of a target or for a target
\* inside the dragged range, sets dropEffect to 'none' on its data transfer.
C14_SuppressedDropRejects ==
    (evt.name = "drop" /\ (evt.target = NoRange \/ evt.inside)) =>
        Has(trace, "dropEffect:none")


\* C15: a cut in an editor that is not read-only sets on the data transfer
\* the content the selection had before the deletion, and deleteContent runs
\* only after the data is set; a copy and the output of a dragstart delete
\* nothing.
C15_CutSetsDataThenDeletes ==
    [][ ~isReadOnly =>
          /\ evt'.name = "cut" =>
                /\ evt'.data = SubSeq(doc, sel[1] + 1, sel[2])
                /\ \A j \in DOMAIN trace' :
                      trace'[j] = "deleteContent:selection" =>
                          \E i \in 1..(j - 1) : trace'[i] = "setData"
                /\ doc' = RemoveNodes(doc, sel[1], sel[2])
          /\ evt'.name \in {"copy", "dragstart"} =>
                /\ doc' = doc
                /\ ~Has(trace', "deleteContent:selection")
                /\ ~Has(trace', "deleteContent:dragged")
                /\ Has(trace', "fire:clipboardOutput") =>
                      evt'.data = SubSeq(doc, sel[1] + 1, sel[2])
      ]_vars

\* A cut deleted the content it had set on the data transfer.
C15_CutDeletedSelection ==
    /\ evt.name = "cut" /\ evt.data # <<>>
    /\ Has(trace, "setData") /\ Has(trace, "deleteContent:selection")


\* C16: a drop with a target first sets the selection to the target, and
\* the test for a drop on the dragged content compares the dragged range
\* with that new selection: the drop is suppressed exactly when the dragged
\* range contains the target, and then the selection is on the target while
\* the document is as it was.
C16_SelectionMovesBeforeOverlapTest ==
    [][ (evt'.name = "drop" /\ evt'.target # NoRange) =>
          /\ SubSeq(trace', 1, 3) = <<"change", "setSelection", "change:end">>
          /\ ~Has(trace', "fire:inputTransformation") <=>
                 (draggedRange # NoRange /\ containsRange(draggedRange, evt'.target, TRUE))
          /\ ~Has(trace', "fire:inputTransformation") =>
                 (sel' = evt'.target /\ doc' = doc /\ Has(trace', "finalize"))
      ]_vars

\* A drop inside the dragged range was suppressed with the selection moved
\* to the target.
C16_SuppressedWithSelectionMoved ==
    /\ evt.name = "drop" /\ evt.inside
    /\ Has(trace, "setSelection") /\ ~Has(trace, "fire:inputTransformation")
    /\ sel = evt.target


\* C17: a pasted fragment with children is treated as plain text (the
\* selection's attributes are set on its texts) exactly when the event has
\* the asPlainText flag, or the fragment has exactly one top-level child and
\* that child is no object and has no attributes; a fragment of two or more
\* top-level children is treated so only with the flag.
C17_PlainTextClassification ==
    [][ (evt'.name = "paste" /\ evt'.fragment # <<>>) =>
          /\ Has(trace', "insertContent")
          /\ Has(trace', "setAttributes") <=>
                \/ evt'.asPlainText
                \/ /\ Len(evt'.fragment) = 1
                   /\ ~isObject(evt'.fragment[1].kind)
                   /\ evt'.fragment[1].attrs = NoAttrs
          /\ (Len(evt'.fragment) >= 2 /\ ~evt'.asPlainText) =>
                ~Has(trace', "setAttributes")
      ]_vars

\* A fragment of one paragraph without attributes was pasted without the
\* flag and treated as plain text.
C17_ParagraphClassifiedPlain ==
    /\ evt.name = "paste" /\ ~evt.asPlainText
    /\ Len(evt.fragment) = 1 /\ evt.fragment[1].kind = "paragraph"
    /\ Has(trace, "setAttributes")


\* C18: for every place an event can name in the document, the result of
\* findDropTargetRange is the nearest selection range, from the event's
\* position (forward in Gecko, backward elsewhere) or without a position
\* forward from offset 0 of the target element, if there is one; else the
\* range on the nearest object among the element and its ancestors (the
\* position's parent, or the target element); and null exactly when there is
\* neither.  A result that is no nearest selection range is a range on one
\* whole object.
C18_DropTargetRange ==
    \A hint \in Hints(doc) :
        LET r == findDropTargetRange(doc, isGecko, hint)
            el == IF hint.hasPos THEN hint.pos.parent ELSE hint.elem
            near == IF hint.hasPos
                    THEN getNearestSelectionRange(doc, hint.pos,
                             IF isGecko THEN "forward" ELSE "backward")
                    ELSE getNearestSelectionRange(doc, At(hint.elem, 0), "forward")
            objects == { k \in 1..Len(el) : isObject(kindAt(doc, SubSeq(el, 1, k))) }
            nearest == SubSeq(el, 1, CHOOSE k \in objects : \A j \in objects : j <= k)
        IN  /\ near # NoRange => r = near
            /\ (near = NoRange /\ objects # {}) => r = <<nearest[1] - 1, nearest[1]>>
            /\ r = NoRange <=> (near = NoRange /\ objects = {})
            /\ (near = NoRange /\ r # NoRange) =>
                   (r[2] = r[1] + 1 /\ isObject(doc[r[2]].kind))

\* A dragging event on an object with an inner limit element, or inside that
\* element, resolved to the range on the object.
C18_ResolvedToObjectAncestor ==
    /\ evt.name = "dragging" /\ evt.target # NoRange /\ ~isCollapsed(evt.target)
    /\ doc[evt.target[2]].kind = "WL"


\* The range of the drop-target marker that is shown, if any.
Shown(m) == IF m.position # NoRange THEN m.position ELSE m.range

\* The target that is shown once the throttled function has nothing left to
\* do: the pending argument, or without one the range of the marker.
LatestTarget(t, m) == IF t.lastArgs # NoRange THEN t.lastArgs ELSE Shown(m)

\* C19: with no finalize, dragleave or destroy, the target of the most recent
\* dragging event with a target is what the throttled function shows or has
\* pending; time and the timer of the throttled function never put another
\* target in its place; and when the timer has fired nothing is pending and
\* exactly one marker exists, with that target as its range.
C19_LatestTargetShown ==
    [][ /\ (evt'.name = "dragging" /\ evt'.target # NoRange) =>
               LatestTarget(thr', markers') = evt'.target
        /\ evt'.name \in {"timer", "wait"} =>
               LatestTarget(thr', markers') = LatestTarget(thr, markers)
        /\ evt'.name = "timer" =>
               /\ thr'.lastArgs = NoRange
               /\ LatestTarget(thr, markers) # NoRange =>
                      /\ (markers'.position = NoRange) # (markers'.range = NoRange)
                      /\ Shown(markers') = LatestTarget(thr, markers)
      ]_vars

\* The timer applied a pending target in place of the one shown before.
C19_TimerAppliedPending ==
    /\ evt.name = "timer"
    /\ Has(trace, "updateMarker:position") \/ Has(trace, "updateMarker:range")


\* The steps of the inputTransformation listener that change the model.
IsInputStep(tag) ==
    tag \in {"deleteContent:dragged", "deleteContent:selection", "setAttributes", "insertContent"}

\* All steps of t that change the model lie inside the one transaction that
\* opens at t[a] and ends at t[b].
InOneTransaction(t, a, b) ==
    /\ a < b /\ t[a] = "change" /\ t[b] = "change:end"
    /\ \A k \in (a + 1)..(b - 1) : t[k] \notin {"change", "change:end"}
    /\ \A k \in DOMAIN t : IsInputStep(t[k]) => (a < k /\ k < b)

\* C20: when a paste or drop inserts a fragment, the deletion of the dragged
\* content, the deletion of the selection for plain text, the setting of the
\* attributes and the insertion all lie in one model.change transaction, the
\* deletion of the dragged content before the insertion; a drop reporting a
\* move deletes the dragged content there; and no paste or drop does one of
\* these steps without the insertion.
C20_InputInOneTransaction ==
    [][ evt'.name \in {"paste", "drop"} =>
          /\ Has(trace', "insertContent") =>
                /\ \E a, b \in DOMAIN trace' : InOneTransaction(trace', a, b)
                /\ \A i, j \in DOMAIN trace' :
                      (trace'[i] = "deleteContent:dragged" /\ trace'[j] = "insertContent")
                          => i < j
                /\ (evt'.moved /\ draggedRange # NoRange /\ ~isCollapsed(draggedRange))
                          => Has(trace', "deleteContent:dragged")
                /\ ~Has(trace', "threw")
          /\ (\E k \in DOMAIN trace' : IsInputStep(trace'[k])) => Has(trace', "insertContent")
      ]_vars

\* A drop moved the dragged content onto a selected object as plain text:
\* all four steps happened.
C20_MovedOntoSelectionAsPlainText ==
    /\ evt.name = "drop"
    /\ Has(trace, "deleteContent:dragged") /\ Has(trace, "deleteContent:selection")
    /\ Has(trace, "setAttributes") /\ Has(trace, "insertContent")


\* C21: while the editor is read-only no clipboard or drag event changes the
\* document; a dragend that reports a move after a dragstart on a selected
\* range deletes nothing.
C21_ReadOnlyKeepsDocument ==
    [][ isReadOnly => doc' = doc ]_vars

====
